---- MODULE Spec2Model ----
(***************************************************************************)
(* Credential storage and verification of the fleet-management            *)
(* application: app/security.py (PBKDF2 credential records),               *)
(* app/auth.py (AuthService) and the users table of app/database.py.       *)
(*                                                                         *)
(* Text is a sequence of characters, each a string: an ASCII character is  *)
(* itself, a Cyrillic letter is named by its code point ("U+042E" is the   *)
(* capital letter YU, "U+044E" the small one).  Bytes are sequences of     *)
(* numbers 0..255.                                                         *)
(***************************************************************************)
EXTENDS Integers, Sequences, FiniteSets, TLC

\* ------------------------------------------------------------------------
\* Bounds of the model
\* ------------------------------------------------------------------------
\* number of rows the users table may hold
MaxUsers == 3
\* number of distinct values os.urandom() may return
NumSalts == 2

\* ------------------------------------------------------------------------
\* Text helpers (Python str / SQLite text functions)
\* ------------------------------------------------------------------------
\* characters str.strip(), int() and bytes.fromhex() treat as whitespace
Whitespace == {" "}

\* str.lower() of one character: Unicode-aware
PyLowerCh(c) ==
    CASE c = "A" -> "a"
      [] c = "B" -> "b"
      [] c = "D" -> "d"
      [] c = "O" -> "o"
      [] c = "U+042E" -> "U+044E"
      [] OTHER -> c

\* SQLite's built-in lower() of one character: folds ASCII letters only
SqlLowerCh(c) ==
    CASE c = "A" -> "a"
      [] c = "B" -> "b"
      [] c = "D" -> "d"
      [] c = "O" -> "o"
      [] OTHER -> c

\* str.lower()
PyLower(s) == [i \in 1..Len(s) |-> PyLowerCh(s[i])]

\* SQL lower(username)
SqlLower(s) == [i \in 1..Len(s) |-> SqlLowerCh(s[i])]

\* str.strip(): drop leading and trailing whitespace
RECURSIVE LStrip(_)
LStrip(s) == IF s # <<>> /\ Head(s) \in Whitespace THEN LStrip(Tail(s)) ELSE s

RECURSIVE RStrip(_)
RStrip(s) ==
    IF s # <<>> /\ s[Len(s)] \in Whitespace
    THEN RStrip(SubSeq(s, 1, Len(s) - 1))
    ELSE s

Strip(s) == RStrip(LStrip(s))

\* str.split(sep): the list of fields between occurrences of sep
Split(s, sep) ==
    LET at == SelectSeq([i \in 1..Len(s) |-> i], LAMBDA i : s[i] = sep)
        n == Len(at)
    IN  [k \in 1..(n + 1) |->
            SubSeq(s, IF k = 1 THEN 1 ELSE at[k - 1] + 1,
                      IF k = n + 1 THEN Len(s) ELSE at[k] - 1)]

\* ------------------------------------------------------------------------
\* Numbers and bytes as text
\* ------------------------------------------------------------------------
Digits == <<"0", "1", "2", "3", "4", "5", "6", "7", "8", "9">>

HexDigits == <<"0", "1", "2", "3", "4", "5", "6", "7", "8", "9",
               "a", "b", "c", "d", "e", "f">>

\* largest iteration count hashlib.pbkdf2_hmac accepts (C int)
INT_MAX == 2147483647

DigitVal(c) == CHOOSE d \in 0..9 : Digits[d + 1] = c

IsDigit(c) == \E d \in 1..10 : Digits[d] = c

\* value of a hexadecimal digit, either case (bytes.fromhex accepts both)
HexVal(c) ==
    CASE c = "A" -> 10
      [] c = "B" -> 11
      [] c = "C" -> 12
      [] c = "D" -> 13
      [] c = "E" -> 14
      [] c = "F" -> 15
      [] OTHER -> (CHOOSE d \in 0..15 : HexDigits[d + 1] = c)

IsHex(c) == (\E d \in 1..16 : HexDigits[d] = c) \/ c \in {"A", "B", "C", "D", "E", "F"}

\* format of an int by an f-string: decimal, no sign for n >= 0
RECURSIVE IntStr(_)
IntStr(n) == IF n < 10 THEN <<Digits[n + 1]>> ELSE Append(IntStr(n \div 10), Digits[(n % 10) + 1])

\* bytes.hex(): two lower-case hexadecimal digits per byte
BytesHex(bs) ==
    [i \in 1..(2 * Len(bs)) |->
        IF i % 2 = 1 THEN HexDigits[(bs[(i + 1) \div 2] \div 16) + 1]
        ELSE HexDigits[(bs[i \div 2] % 16) + 1]]

\* bytes.fromhex(): pairs of hexadecimal digits, whitespace allowed between
\* pairs (never inside one); ok = FALSE stands for ValueError
FromHex(s) ==
    LET at == SelectSeq([i \in 1..Len(s) |-> i], LAMBDA i : s[i] \notin Whitespace)
        n == Len(at) \div 2
        ok == /\ Len(at) % 2 = 0
              /\ \A k \in 1..Len(at) : IsHex(s[at[k]])
              /\ \A j \in 1..n : at[2 * j] = at[2 * j - 1] + 1
    IN  IF ok
        THEN [ok |-> TRUE,
              val |-> [j \in 1..n |-> HexVal(s[at[2 * j - 1]]) * 16 + HexVal(s[at[2 * j]])]]
        ELSE [ok |-> FALSE, val |-> <<>>]

\* the digits of an int() literal after the sign: digits, single underscores
\* between digits.  big = TRUE when the value exceeds INT_MAX.
RECURSIVE IntDigits(_, _, _)
IntDigits(s, acc, big) ==
    IF s = <<>> THEN [ok |-> TRUE, val |-> acc, big |-> big]
    ELSE IF IsDigit(Head(s))
         THEN IF big \/ acc > (INT_MAX - DigitVal(Head(s))) \div 10
              THEN IntDigits(Tail(s), 0, TRUE)
              ELSE IntDigits(Tail(s), acc * 10 + DigitVal(Head(s)), FALSE)
    ELSE IF Head(s) = "_" /\ Len(s) >= 2 /\ IsDigit(s[2])
         THEN IntDigits(Tail(s), acc, big)
    ELSE [ok |-> FALSE, val |-> 0, big |-> FALSE]

\* int(text): surrounding whitespace, optional sign, decimal digits;
\* ok = FALSE stands for ValueError
IntParse(text) ==
    LET s == Strip(text)
        neg == s # <<>> /\ Head(s) = "-"
        body == IF s # <<>> /\ Head(s) \in {"-", "+"} THEN Tail(s) ELSE s
        r == IF body # <<>> /\ IsDigit(Head(body))
             THEN IntDigits(body, 0, FALSE)
             ELSE [ok |-> FALSE, val |-> 0, big |-> FALSE]
    IN  [ok |-> r.ok, val |-> IF neg THEN 0 - r.val ELSE r.val, big |-> r.big /\ ~neg]

\* str.encode("utf-8") of one character
Utf8Ch(c) ==
    CASE c = " " -> <<32>>
      [] c = "$" -> <<36>>
      [] c = "1" -> <<49>>
      [] c = "2" -> <<50>>
      [] c = "3" -> <<51>>
      [] c = "A" -> <<65>>
      [] c = "B" -> <<66>>
      [] c = "a" -> <<97>>
      [] c = "b" -> <<98>>
      [] c = "c" -> <<99>>
      [] c = "d" -> <<100>>
      [] c = "e" -> <<101>>
      [] c = "i" -> <<105>>
      [] c = "m" -> <<109>>
      [] c = "n" -> <<110>>
      [] c = "o" -> <<111>>
      [] c = "r" -> <<114>>
      [] c = "s" -> <<115>>
      [] c = "t" -> <<116>>
      [] c = "U+042E" -> <<208, 174>>
      [] c = "U+044E" -> <<209, 142>>
      [] c = "U+0440" -> <<209, 128>>
      [] c = "U+0430" -> <<208, 176>>
      [] OTHER -> <<63>>

RECURSIVE Utf8(_)
Utf8(s) == IF s = <<>> THEN <<>> ELSE Utf8Ch(Head(s)) \o Utf8(Tail(s))

\* ------------------------------------------------------------------------
\* app/security.py
\* ------------------------------------------------------------------------
PBKDF2_ITERATIONS == 200000

SALT_LENGTH == 16

\* digest size of SHA-256, the length of the derived key
DIGEST_SIZE == 32

\* the random source asked for half as many bytes
Urandom_short(k) == [i \in 1..(SALT_LENGTH \div 2) |-> (37 * k + 11 * i) % 256]

\* os.urandom(SALT_LENGTH): the k-th value the random source may return
Urandom(k) == [i \in 1..SALT_LENGTH |-> (37 * k + 11 * i) % 256]

Salts == {Urandom(k) : k \in 1..NumSalts}

\* hashlib.pbkdf2_hmac("sha256", password, salt, iterations) for
\* 1 <= iterations <= INT_MAX: a deterministic function of its three
\* arguments returning DIGEST_SIZE bytes.  The pseudorandom function is
\* replaced by a polynomial mix over the same inputs.
RECURSIVE MixBytes(_, _)
MixBytes(h, bs) == IF bs = <<>> THEN h ELSE MixBytes((h * 31 + Head(bs) + 1) % 65521, Tail(bs))

pbkdf2_hmac(password, salt, iterations) ==
    LET h1 == MixBytes(iterations % 65521, password)
        h2 == MixBytes((h1 * 31 + 257) % 65521, salt)
    IN  [i \in 1..DIGEST_SIZE |-> ((h2 + 17 * i) * (2 * i + 1) + (h2 \div 256)) % 256]

\* hash_password with the derived key written before the salt
hash_password_key_first(password, salt) ==
    IF password = <<>>
    THEN [raised |-> TRUE, val |-> <<>>]
    ELSE [raised |-> FALSE,
          val |-> IntStr(PBKDF2_ITERATIONS) \o <<"$">>
                  \o BytesHex(pbkdf2_hmac(Utf8(password), salt, PBKDF2_ITERATIONS))
                  \o <<"$">> \o BytesHex(salt)]

\* hash_password(password) with the salt os.urandom returned;
\* raised = TRUE stands for ValueError("Password must not be empty.")
hash_password(password, salt) ==
    IF password = <<>>
    THEN [raised |-> TRUE, val |-> <<>>]
    ELSE [raised |-> FALSE,
          val |-> IntStr(PBKDF2_ITERATIONS) \o <<"$">> \o BytesHex(salt) \o <<"$">>
                  \o BytesHex(pbkdf2_hmac(Utf8(password), salt, PBKDF2_ITERATIONS))]

\* bytes compared as a == b does: stop at the first byte that differs
RECURSIVE tscmp_early_exit(_, _, _, _)
tscmp_early_exit(left, right, i, acc) ==
    IF i > Len(right) THEN acc
    ELSE IF left[i] # right[i] THEN [result |-> 1, work |-> acc.work + 1]
    ELSE tscmp_early_exit(left, right, i + 1, [result |-> 0, work |-> acc.work + 1])

\* the loop of hmac.compare_digest: every byte of right is visited, each
\* difference is or-ed into result; work counts the bytes visited
RECURSIVE tscmp(_, _, _, _)
tscmp(left, right, i, acc) ==
    IF i > Len(right) THEN acc
    ELSE tscmp(left, right, i + 1,
               [result |-> IF left[i] # right[i] THEN 1 ELSE acc.result,
                work |-> acc.work + 1])

\* hmac.compare_digest(a, b): when the lengths differ b is compared with
\* itself and the answer is False
compare_digest(a, b) ==
    LET same_length == Len(a) = Len(b)
        r == tscmp(IF same_length THEN a ELSE b, b, 1, [result |-> 0, work |-> 0])
    IN  [equal |-> same_length /\ r.result = 0, work |-> r.work]

\* _split_hash returning the default iteration count whatever the record says
split_hash_default_count(stored_hash) ==
    LET parts == Split(stored_hash, "$")
        bad == [ok |-> FALSE, iterations |-> 0, big |-> FALSE, salt |-> <<>>, hash_bytes |-> <<>>]
    IN  IF Len(parts) # 3 THEN bad
        ELSE LET iterations == IntParse(parts[1])
                 salt == FromHex(parts[2])
                 hash_bytes == FromHex(parts[3])
             IN  IF ~iterations.ok \/ ~salt.ok \/ ~hash_bytes.ok THEN bad
                 ELSE [ok |-> TRUE, iterations |-> PBKDF2_ITERATIONS, big |-> FALSE,
                       salt |-> salt.val, hash_bytes |-> hash_bytes.val]

\* _split_hash(stored_hash); ok = FALSE stands for ValueError
split_hash(stored_hash) ==
    LET parts == Split(stored_hash, "$")
        bad == [ok |-> FALSE, iterations |-> 0, big |-> FALSE, salt |-> <<>>, hash_bytes |-> <<>>]
    IN  IF Len(parts) # 3 THEN bad
        ELSE LET iterations == IntParse(parts[1])
                 salt == FromHex(parts[2])
                 hash_bytes == FromHex(parts[3])
             IN  IF ~iterations.ok \/ ~salt.ok \/ ~hash_bytes.ok THEN bad
                 ELSE [ok |-> TRUE, iterations |-> iterations.val, big |-> iterations.big,
                       salt |-> salt.val, hash_bytes |-> hash_bytes.val]

\* verify_password deriving the key with the default iteration count
\* instead of the count the record carries
verify_password_default_count(password, stored_hash) ==
    LET p == split_hash(stored_hash)
    IN  IF ~p.ok THEN "False"
        ELSE IF p.big THEN "OverflowError"
        ELSE IF p.iterations < 1 THEN "ValueError"
        ELSE IF compare_digest(pbkdf2_hmac(Utf8(password), p.salt, PBKDF2_ITERATIONS),
                               p.hash_bytes).equal
             THEN "True"
             ELSE "False"

\* verify_password(password, stored_hash): "True", "False", or the name of
\* the exception that leaves the function
verify_password(password, stored_hash) ==
    LET p == split_hash(stored_hash)
    IN  IF ~p.ok THEN "False"
        ELSE IF p.big THEN "OverflowError"
        ELSE IF p.iterations < 1 THEN "ValueError"
        ELSE IF compare_digest(pbkdf2_hmac(Utf8(password), p.salt, p.iterations),
                               p.hash_bytes).equal
             THEN "True"
             ELSE "False"

\* the bytes hmac.compare_digest visits in verify_password(password,
\* stored_hash); 0 when the call ends before the comparison
verify_password_work(password, stored_hash) ==
    LET p == split_hash(stored_hash)
    IN  IF ~p.ok \/ p.big \/ p.iterations < 1 THEN 0
        ELSE compare_digest(pbkdf2_hmac(Utf8(password), p.salt, p.iterations),
                            p.hash_bytes).work

\* ------------------------------------------------------------------------
\* Inputs: the texts callers submit and the texts a store may hold
\* ------------------------------------------------------------------------
\* "admin", "admin123" and the display name seeded by _ensure_default_user
AdminName == <<"a", "d", "m", "i", "n">>
AdminPassword == <<"a", "d", "m", "i", "n", "1", "2", "3">>
AdminFullName == <<"U+0410", "U+0434", "U+043C", "U+0438", "U+043D", "U+0438", "U+0441", "U+0442", "U+0440", "U+0430", "U+0442", "U+043E", "U+0440">>

\* usernames submitted to the service: " ab " (two characters once trimmed),
\* "bob", " Bob ", "Admin", and the Cyrillic "Yura" / "yura"
NameShort == <<" ", "a", "b", " ">>
NameBob == <<"b", "o", "b">>
NameBobSpaced == <<"b", "o", "b", " ">>
NameBobCased == <<" ", "B", "o", "b", " ">>
NameAdminCased == <<"A", "d", "m", "i", "n">>
NameYuraCased == <<"U+042E", "U+0440", "U+0430">>
NameYura == <<"U+044E", "U+0440", "U+0430">>
NameBlank == <<" ", " ">>

Usernames == {NameShort, NameBobCased, NameAdminCased, NameYuraCased, NameYura, NameBlank}

\* passwords: empty, "secre" (5 characters), "secret" (6), "admin123", and
\* one with Cyrillic letters, two bytes each in UTF-8
PwEmpty == <<>>
PwFive == <<"s", "e", "c", "r", "e">>
PwSix == <<"s", "e", "c", "r", "e", "t">>
PwCyrillic == <<"U+044E", "U+0440", "U+0430", "1", "2", "3">>

Passwords == {PwEmpty, PwFive, PwSix, AdminPassword, PwCyrillic}

\* passwords submitted to authenticate and to register_user
LoginPasswords == {PwEmpty, PwSix, AdminPassword}

RegisterPasswords == {PwFive, PwSix}

\* display names: empty, and " B " (surrounded by whitespace)
FullNames == {<<>>, <<" ", "B", " ">>}

\* the display names submitted together with a username: both for " Bob ",
\* the empty one for the others
FullNamesFor(username) == IF username = NameBobCased THEN FullNames ELSE {<<>>}

\* credential records a store may hand to verify_password besides the ones
\* hash_password wrote
RecNotValid == <<"n", "o", "t", "-", "a", "-", "v", "a", "l", "i", "d", "-", "f", "o", "r", "m", "a", "t">>
RecBadHex == <<"1", "$", "d", "e", "a", "d", "b", "e", "e", "f", "$", "z", "z">>
RecZeroIter == <<"0", "$", "a", "b", "$", "c", "d">>
RecNegIter == <<"-", "1", "$", "a", "b", "$", "c", "d">>
RecNonNumeric == <<"x", "$", "a", "b", "$", "c", "d">>
RecOddHex == <<"1", "$", "a", "b", "c", "$", "c", "d">>
RecFourFields == <<"1", "$", "a", "b", "$", "c", "d", "$", "e", "f">>
RecShortKey == <<"1", "$", "a", "b", "$", "c", "d">>
RecTwoFields == <<"1", "$", "a", "b">>
RecSplitPair == <<"1", "$", "a", " ", "b", "$", "c", "d">>
RecHugeIter == <<"9", "9", "9", "9", "9", "9", "9", "9", "9", "9", "9", "$", "a", "b", "$", "c", "d">>
RecEmpty == <<>>

\* a record written with another iteration count and an upper-case,
\* 8-byte salt: " 1_000$<SALT-HEX>$<key-hex>"
LegacySalt == <<171, 205, 239, 1, 35, 69, 103, 137>>
RecLegacy ==
    <<" ", "1", "_", "0", "0", "0">> \o <<"$">> \o <<"A", "B", "C", "D", "E", "F", "0", "1", "2", "3", "4", "5", "6", "7", "8", "9">> \o <<"$">>
    \o BytesHex(pbkdf2_hmac(Utf8(PwSix), LegacySalt, 1000))

\* the record hash_password wrote for password with salt when the module's
\* iteration count was iterations
RecordWithCount(password, salt, iterations) ==
    IntStr(iterations) \o <<"$">> \o BytesHex(salt) \o <<"$">>
    \o BytesHex(pbkdf2_hmac(Utf8(password), salt, iterations))

\* an earlier default of the iteration count
EarlierIterations == 1000

\* the record of "secret" written under that default
RecEarlier == RecordWithCount(PwSix, Urandom(1), EarlierIterations)

\* that record with the last byte of its key changed
RecLastByteOff ==
    LET key == pbkdf2_hmac(Utf8(PwSix), Urandom(1), EarlierIterations)
    IN  IntStr(EarlierIterations) \o <<"$">> \o BytesHex(Urandom(1)) \o <<"$">>
        \o BytesHex([key EXCEPT ![DIGEST_SIZE] = (@ + 1) % 256])

MalformedRecords ==
    {RecNotValid, RecBadHex, RecZeroIter, RecNegIter, RecNonNumeric, RecOddHex,
     RecFourFields, RecTwoFields, RecSplitPair, RecShortKey, RecHugeIter, RecEmpty}

RecordInputs == MalformedRecords \cup {RecLegacy, RecEarlier, RecLastByteOff}

\* ------------------------------------------------------------------------
\* State
\* ------------------------------------------------------------------------
\* number of callers that may use the store at the same time
NumCallers == 2

Callers == 1..NumCallers

VARIABLES
    users,      \* committed rows of table users, in rowid order
    seq,        \* sqlite_sequence of users: the largest id ever assigned
    pc,         \* pc[c]: "idle", or "insert" inside register_user after the check
    call,       \* call[c]: the arguments of the call caller c is in or made last
    result,     \* result[c]: what the last finished call of caller c gave
    steps,      \* steps[c]: what the last authenticate call of caller c did
    h_op,       \* credential hasher alone: the function called last
    h_password, \* its password argument
    h_record,   \* the record under test: given, or returned by hash_password
    h_hashed,   \* <<password, salt>> h_record was hashed from, else <<>>
    h_out,      \* what the last call of the hasher gave
    h_prev,     \* <<password, salt, record>> of the hash_password call before
                \* the one h_record comes from, else <<>>
    h_work,     \* bytes the key comparison of the last verify_password visited
    ipc,        \* ipc[i]: where DatabaseManager() number i is: "new", "counted"
                \* after SELECT COUNT(*), "commit" before the last commit,
                \* "done", or "failed" when an exception ended it
    icount,     \* icount[i]: what its SELECT COUNT(*) FROM users returned
    ierr,       \* ierr[i]: the exception that ended it, else ""
    wlock,      \* the initialization whose connection holds the write lock, or 0
    pending,    \* the users table as written, not yet committed, by that connection
    d_state,    \* AuthDialog: "none" (not shown), "open", "accepted", "rejected",
                \* or "crashed" when an exception left a handler
    d_user,     \* AuthDialog.authenticated_user: <<>> for None, else <<row>>
    d_error,    \* the text of the error label the last handler set, "" if cleared
    d_last,     \* the handler that ran last, the form fields it read, and
                \* whether it called the service
    window,     \* run(): TRUE once MainWindow was created
    conn        \* connect(): the connection of the with-block that is running
                \* or ran last: state, the table as the connection sees it
                \* (pending writes included), its last rowid, how the body ended

vars == <<users, seq, pc, call, result, steps, h_op, h_password, h_record, h_hashed, h_out, h_prev, h_work,
          ipc, icount, ierr, wlock, pending,
          d_state, d_user, d_error, d_last, window, conn>>

svars == <<users, seq, pc, call, result, steps>>

hvars == <<h_op, h_password, h_record, h_hashed, h_out, h_prev, h_work>>

ivars == <<ipc, icount, ierr, wlock, pending>>

dvars == <<d_state, d_user, d_error, d_last, window>>

\* the variables the calls of the service and of the hasher leave alone
xvars == <<ivars, dvars, conn>>

\* ------------------------------------------------------------------------
\* app/database.py: table users and the connection context manager
\* ------------------------------------------------------------------------
\* a row of users; full_name is <<>> for NULL, else <<text>>
Row(id, username, password_hash, full_name) ==
    [id |-> id, username |-> username, password_hash |-> password_hash, full_name |-> full_name]

\* "username TEXT NOT NULL UNIQUE": the default BINARY collation compares
\* the stored texts character by character
UniqueViolation(tbl, username) == \E i \in 1..Len(tbl) : tbl[i].username = username

\* "SELECT ... FROM users WHERE lower(username) = ?" followed by fetchone():
\* the first matching row as a list of at most one row
RECURSIVE SelectByLowerUsername(_, _)
SelectByLowerUsername(tbl, key) ==
    IF tbl = <<>> THEN <<>>
    ELSE IF SqlLower(Head(tbl).username) = key THEN <<Head(tbl)>>
    ELSE SelectByLowerUsername(Tail(tbl), key)

\* the statement as INSERT OR REPLACE: a row with the same username is
\* deleted before the new one is added
InsertUser_or_replace(tbl, lastid, username, password_hash, full_name) ==
    [raised |-> FALSE,
     tbl |-> Append(SelectSeq(tbl, LAMBDA r : r.username # username),
                    Row(lastid + 1, username, password_hash, full_name)),
     lastrowid |-> lastid + 1]

\* "INSERT INTO users (username, password_hash, full_name) VALUES (?, ?, ?)":
\* raised = TRUE stands for sqlite3.IntegrityError, else tbl is the table
\* with the new row and lastrowid its id
InsertUser(tbl, lastid, username, password_hash, full_name) ==
    IF UniqueViolation(tbl, username)
    THEN [raised |-> TRUE, tbl |-> tbl, lastrowid |-> 0]
    ELSE [raised |-> FALSE,
          tbl |-> Append(tbl, Row(lastid + 1, username, password_hash, full_name)),
          lastrowid |-> lastid + 1]

\* the context manager with commit() moved into the finally clause
connect_always_commit(committed, written, raised) == written

\* DatabaseManager.connect(): the writes of the with-block are committed
\* when the block ends without raising; otherwise the connection is closed
\* with its transaction open, which discards them
connect(committed, written, raised) == IF raised THEN committed ELSE written

\* _ensure_default_user(): seed "admin" when users is empty
ensure_default_user(tbl, lastid, salt) ==
    IF Len(tbl) # 0 THEN [raised |-> FALSE, tbl |-> tbl, lastrowid |-> lastid]
    ELSE InsertUser(tbl, lastid, AdminName, hash_password(AdminPassword, salt).val, <<AdminFullName>>)

\* ------------------------------------------------------------------------
\* app/auth.py: AuthService
\* ------------------------------------------------------------------------
Args(op, username, password, full_name) ==
    [op |-> op, username |-> username, password |-> password, full_name |-> full_name]

NoCall == Args("none", <<>>, <<>>, <<>>)

\* a finished call: kind is "return" or "raise"; rows is what authenticate
\* returned (<<>> for None), flag what user_exists returned, id what
\* register_user returned; exc and msg describe the exception raised
Returned(rows, flag, id) ==
    [kind |-> "return", rows |-> rows, flag |-> flag, id |-> id, exc |-> "", msg |-> ""]

Raised(exc, msg) ==
    [kind |-> "raise", rows |-> <<>>, flag |-> FALSE, id |-> 0, exc |-> exc, msg |-> msg]

NoResult == [kind |-> "none", rows |-> <<>>, flag |-> FALSE, id |-> 0, exc |-> "", msg |-> ""]

\* authenticate without the early return for an empty username or password
authenticate_unguarded(tbl, username_arg, password) ==
    LET username == PyLower(Strip(username_arg))
        row == SelectByLowerUsername(tbl, username)
    IN  IF row = <<>> THEN Returned(<<>>, FALSE, 0)
        ELSE LET v == verify_password(password, row[1].password_hash)
             IN  IF v = "True" THEN Returned(row, FALSE, 0)
                 ELSE IF v = "False" THEN Returned(<<>>, FALSE, 0)
                 ELSE Raised(v, "")

\* AuthService.authenticate(username, password) against table tbl
authenticate(tbl, username_arg, password) ==
    LET username == PyLower(Strip(username_arg))
        row == SelectByLowerUsername(tbl, username)
    IN  IF username = <<>> \/ password = <<>> THEN Returned(<<>>, FALSE, 0)
        ELSE IF row = <<>> THEN Returned(<<>>, FALSE, 0)
        ELSE LET v == verify_password(password, row[1].password_hash)
             IN  IF v = "True" THEN Returned(row, FALSE, 0)
                 ELSE IF v = "False" THEN Returned(<<>>, FALSE, 0)
                 ELSE Raised(v, "")

\* what authenticate(username, password) does before it returns or raises:
\* "lookup" the SELECT, "parse" _split_hash, "derive" the call of
\* pbkdf2_hmac, "compare" hmac.compare_digest
authenticate_steps(tbl, username_arg, password) ==
    LET username == PyLower(Strip(username_arg))
        row == SelectByLowerUsername(tbl, username)
    IN  IF username = <<>> \/ password = <<>> THEN <<>>
        ELSE IF row = <<>> THEN <<"lookup">>
        ELSE LET p == split_hash(row[1].password_hash)
             IN  IF ~p.ok THEN <<"lookup", "parse">>
                 ELSE IF p.big \/ p.iterations < 1 THEN <<"lookup", "parse", "derive">>
                 ELSE <<"lookup", "parse", "derive", "compare">>

\* AuthService.user_exists(username) against table tbl
user_exists(tbl, username_arg) ==
    LET username == PyLower(Strip(username_arg))
    IN  IF username = <<>> THEN FALSE
        ELSE SelectByLowerUsername(tbl, username) # <<>>

\* register_check without the test of the password's length
register_check_any_password(tbl, username_arg, password) ==
    LET username == Strip(username_arg)
    IN  IF Len(username) < 3 THEN Raised("ValueError", "username too short")
        ELSE IF user_exists(tbl, username) THEN Raised("ValueError", "username taken")
        ELSE NoResult

\* register_user up to the existence check: the exception it raises, or
\* NoResult when the call goes on to the insert
register_check(tbl, username_arg, password) ==
    LET username == Strip(username_arg)
    IN  IF Len(username) < 3 THEN Raised("ValueError", "username too short")
        ELSE IF Len(password) < 6 THEN Raised("ValueError", "password too short")
        ELSE IF user_exists(tbl, username) THEN Raised("ValueError", "username taken")
        ELSE NoResult

\* register_insert storing the username lower-cased
register_insert_lowercased(tbl, lastid, username_arg, password, full_name_arg, salt) ==
    LET username == PyLower(Strip(username_arg))
        full_name == IF Strip(full_name_arg) = <<>> THEN <<>> ELSE <<Strip(full_name_arg)>>
        h == hash_password(password, salt)
        ins == InsertUser(tbl, lastid, username, h.val, full_name)
    IN  IF h.raised THEN [raised |-> TRUE, exc |-> "ValueError", tbl |-> tbl, lastrowid |-> 0]
        ELSE [raised |-> ins.raised, exc |-> IF ins.raised THEN "IntegrityError" ELSE "",
              tbl |-> ins.tbl, lastrowid |-> ins.lastrowid]

\* register_user from the insert on: the with-block of lines 50-58
register_insert(tbl, lastid, username_arg, password, full_name_arg, salt) ==
    LET username == Strip(username_arg)
        full_name == IF Strip(full_name_arg) = <<>> THEN <<>> ELSE <<Strip(full_name_arg)>>
        h == hash_password(password, salt)
        ins == InsertUser(tbl, lastid, username, h.val, full_name)
    IN  IF h.raised THEN [raised |-> TRUE, exc |-> "ValueError", tbl |-> tbl, lastrowid |-> 0]
        ELSE [raised |-> ins.raised, exc |-> IF ins.raised THEN "IntegrityError" ELSE "",
              tbl |-> ins.tbl, lastrowid |-> ins.lastrowid]

\* ------------------------------------------------------------------------
\* Initial states
\* ------------------------------------------------------------------------
\* the store after DatabaseManager() ran on a new file: admin is seeded
InitStore ==
    \E salt \in Salts :
        /\ users = ensure_default_user(<<>>, 0, salt).tbl
        /\ seq = ensure_default_user(<<>>, 0, salt).lastrowid

InitCallers ==
    /\ pc = [c \in Callers |-> "idle"]
    /\ call = [c \in Callers |-> NoCall]
    /\ result = [c \in Callers |-> NoResult]
    /\ steps = [c \in Callers |-> <<>>]

InitHasherIdle ==
    /\ h_op = "none"
    /\ h_password = <<>>
    /\ h_record = <<>>
    /\ h_hashed = <<>>
    /\ h_out = ""
    /\ h_prev = <<>>
    /\ h_work = 0

\* every DatabaseManager() has returned
InitConstructed ==
    /\ ipc = [i \in Callers |-> "done"]
    /\ icount = [i \in Callers |-> 0]
    /\ ierr = [i \in Callers |-> ""]
    /\ wlock = 0
    /\ pending = <<>>

\* the form fields a handler read; handler "none" before any ran
Form(handler, username, password, confirm, full_name, called) ==
    [handler |-> handler, username |-> username, password |-> password,
     confirm |-> confirm, full_name |-> full_name, called |-> called]

NoForm == Form("none", <<>>, <<>>, <<>>, <<>>, FALSE)

\* no AuthDialog exists
InitNoDialog ==
    /\ d_state = "none"
    /\ d_user = <<>>
    /\ d_error = ""
    /\ d_last = NoForm
    /\ window = FALSE

\* no with-block of connect() has run
NoConnection == [state |-> "none", tbl |-> <<>>, lastid |-> 0, body |-> "none"]

InitNoConnection == conn = NoConnection

Init ==
    /\ InitStore /\ InitCallers /\ InitHasherIdle /\ InitConstructed /\ InitNoDialog
    /\ InitNoConnection

\* ------------------------------------------------------------------------
\* Operations of the service
\* ------------------------------------------------------------------------
\* rows the table will hold once every register_user in progress inserted
RowsClaimed == Len(users) + Cardinality({c \in Callers : pc[c] = "insert"})

\* authenticate writing a fresh record for the account it returns
Authenticate_rehashing(c, username, password) ==
    /\ pc[c] = "idle"
    /\ call' = [call EXCEPT ![c] = Args("authenticate", username, password, <<>>)]
    /\ result' = [result EXCEPT ![c] = authenticate(users, username, password)]
    /\ steps' = [steps EXCEPT ![c] = authenticate_steps(users, username, password)]
    /\ \E salt \in Salts :
          users' = [i \in 1..Len(users) |->
                       IF authenticate(users, username, password).rows = <<users[i]>>
                       THEN [users[i] EXCEPT !.password_hash = hash_password(password, salt).val]
                       ELSE users[i]]
    /\ UNCHANGED <<seq, pc, hvars, xvars>>

\* caller c calls authenticate(username, password)
Authenticate(c, username, password) ==
    /\ pc[c] = "idle"
    /\ call' = [call EXCEPT ![c] = Args("authenticate", username, password, <<>>)]
    /\ result' = [result EXCEPT ![c] = authenticate(users, username, password)]
    /\ steps' = [steps EXCEPT ![c] = authenticate_steps(users, username, password)]
    /\ UNCHANGED <<users, seq, pc, hvars, xvars>>

\* caller c calls user_exists(username)
UserExists(c, username) ==
    /\ pc[c] = "idle"
    /\ call' = [call EXCEPT ![c] = Args("user_exists", username, <<>>, <<>>)]
    /\ result' = [result EXCEPT ![c] = Returned(<<>>, user_exists(users, username), 0)]
    /\ steps' = [steps EXCEPT ![c] = <<>>]
    /\ UNCHANGED <<users, seq, pc, hvars, xvars>>

\* caller c calls register_user(username, password, full_name): lines 42-48
RegisterCheck(c, username, password, full_name) ==
    /\ pc[c] = "idle"
    /\ RowsClaimed < MaxUsers
    /\ call' = [call EXCEPT ![c] = Args("register_user", username, password, full_name)]
    /\ LET r == register_check(users, username, password)
       IN  /\ result' = [result EXCEPT ![c] = r]
           /\ pc' = [pc EXCEPT ![c] = IF r.kind = "none" THEN "insert" ELSE "idle"]
    /\ steps' = [steps EXCEPT ![c] = <<>>]
    /\ UNCHANGED <<users, seq, hvars, xvars>>

\* caller c goes on in register_user: lines 50-58
RegisterInsert(c) ==
    /\ pc[c] = "insert"
    /\ \E salt \in Salts :
          LET r == register_insert(users, seq, call[c].username, call[c].password,
                                   call[c].full_name, salt)
          IN  /\ users' = connect(users, r.tbl, r.raised)
              /\ seq' = IF r.raised THEN seq ELSE r.lastrowid
              /\ result' = [result EXCEPT ![c] =
                               IF r.raised THEN Raised(r.exc, "")
                               ELSE Returned(<<>>, FALSE, r.lastrowid)]
    /\ pc' = [pc EXCEPT ![c] = "idle"]
    /\ UNCHANGED <<call, steps, hvars, xvars>>

\* one caller: every call ends before the next one starts
Next ==
    \/ \E username \in Usernames, password \in LoginPasswords : Authenticate(1, username, password)
    \/ \E username \in Usernames : UserExists(1, username)
    \/ \E username \in Usernames, password \in RegisterPasswords :
          \E full_name \in FullNamesFor(username) :
              RegisterCheck(1, username, password, full_name)
    \/ RegisterInsert(1)

Spec == Init /\ [][Next]_vars

\* usernames and passwords of the callers that register at the same time
RaceUsernames == {NameBob, NameBobSpaced, NameBobCased}

RacePasswords == {PwSix}

\* several callers inside register_user at the same time
NextConc ==
    \/ \E c \in Callers, username \in RaceUsernames, password \in RacePasswords :
          RegisterCheck(c, username, password, <<>>)
    \/ \E c \in Callers : RegisterInsert(c)

SpecConc == Init /\ [][NextConc]_vars

\* ------------------------------------------------------------------------
\* The credential hasher alone
\* ------------------------------------------------------------------------
\* the stores whose records the hasher wrote: the seeded admin alone, and
\* with the row register_user(" Bob ", "secret") adds
HasherStores ==
    LET seeded == ensure_default_user(<<>>, 0, Urandom(1))
        registered == register_insert(seeded.tbl, seeded.lastrowid, NameBobCased, PwSix,
                                      <<>>, Urandom(NumSalts))
    IN  {[tbl |-> seeded.tbl, lastrowid |-> seeded.lastrowid],
         [tbl |-> registered.tbl, lastrowid |-> registered.lastrowid]}

InitHasher ==
    /\ \E store \in HasherStores :
          /\ users = store.tbl
          /\ seq = store.lastrowid
    /\ InitCallers
    /\ h_op = "none"
    /\ h_password = <<>>
    /\ h_record \in RecordInputs
    /\ h_hashed = <<>>
    /\ h_out = ""
    /\ h_prev = <<>>
    /\ h_work = 0
    /\ InitConstructed
    /\ InitNoDialog
    /\ InitNoConnection

\* hash_password hashing with one fixed salt, whatever os.urandom returned
HashPassword_fixed_salt(password) ==
    \E salt \in Salts :
        LET h == hash_password(password, Urandom(1))
        IN  /\ h_op' = "hash_password"
            /\ h_password' = password
            /\ h_record' = IF h.raised THEN h_record ELSE h.val
            /\ h_hashed' = IF h.raised THEN h_hashed ELSE <<password, salt>>
            /\ h_out' = IF h.raised THEN "ValueError" ELSE "str"
            /\ h_prev' = IF h.raised \/ h_hashed = <<>> THEN h_prev
                          ELSE <<h_hashed[1], h_hashed[2], h_record>>
            /\ h_work' = 0
            /\ UNCHANGED <<svars, xvars>>

\* hash_password(password)
HashPassword(password) ==
    \E salt \in Salts :
        LET h == hash_password(password, salt)
        IN  /\ h_op' = "hash_password"
            /\ h_password' = password
            /\ h_record' = IF h.raised THEN h_record ELSE h.val
            /\ h_hashed' = IF h.raised THEN h_hashed ELSE <<password, salt>>
            /\ h_out' = IF h.raised THEN "ValueError" ELSE "str"
            /\ h_prev' = IF h.raised \/ h_hashed = <<>> THEN h_prev
                          ELSE <<h_hashed[1], h_hashed[2], h_record>>
            /\ h_work' = 0
            /\ UNCHANGED <<svars, xvars>>

\* verify_password(password, h_record)
VerifyPassword(password) ==
    /\ h_op' = "verify_password"
    /\ h_password' = password
    /\ h_out' = verify_password(password, h_record)
    /\ h_work' = verify_password_work(password, h_record)
    /\ UNCHANGED <<h_record, h_hashed, h_prev, svars, xvars>>

NextHasher ==
    \/ \E password \in Passwords : HashPassword(password)
    \/ \E password \in Passwords : VerifyPassword(password)

SpecHasher == InitHasher /\ [][NextHasher]_vars

\* ------------------------------------------------------------------------
\* hash_password called directly and through register_user
\* ------------------------------------------------------------------------
\* passwords of length 0, 5 and 6
LengthPasswords == {PwEmpty, PwFive, PwSix}

NextRegisterHash ==
    \/ \E password \in {PwEmpty, PwSix} : HashPassword(password)
    \/ \E username \in {NameShort, NameBobCased}, password \in LengthPasswords :
          RegisterCheck(1, username, password, <<>>)
    \/ RegisterInsert(1)

SpecRegisterHash == Init /\ [][NextRegisterHash]_vars

\* ------------------------------------------------------------------------
\* The service opened on an existing database file
\* ------------------------------------------------------------------------
\* users of an existing file: the seeded admin and a row "bob" whose
\* password_hash column holds the text record
StoredTable(record) ==
    <<Row(1, AdminName, hash_password(AdminPassword, Urandom(1)).val, <<AdminFullName>>),
      Row(2, NameBob, record, <<>>)>>

\* DatabaseManager() on such a file: the tables exist and users is not
\* empty, so nothing is created or seeded
InitStored ==
    /\ \E record \in RecordInputs :
          /\ users = ensure_default_user(StoredTable(record), 2, Urandom(1)).tbl
          /\ seq = ensure_default_user(StoredTable(record), 2, Urandom(1)).lastrowid
    /\ InitCallers
    /\ InitHasherIdle
    /\ InitConstructed
    /\ InitNoDialog
    /\ InitNoConnection

\* the calls that read the store
NextStored ==
    \/ \E username \in Usernames, password \in LoginPasswords : Authenticate(1, username, password)
    \/ \E username \in Usernames : UserExists(1, username)

SpecStored == InitStored /\ [][NextStored]_vars

\* ------------------------------------------------------------------------
\* app/database.py: DatabaseManager() on a file, _ensure_initialized
\* ------------------------------------------------------------------------
\* the INSERT of _ensure_default_user
default_user_insert(tbl, lastid, salt) ==
    InsertUser(tbl, lastid, AdminName, hash_password(AdminPassword, salt).val, <<AdminFullName>>)

\* the users table of the file DatabaseManager() is pointed at: a new file,
\* or a file whose only account is "bob"
InitialFiles == {<<>>, <<Row(1, NameBob, RecEarlier, <<>>)>>}

InitFile ==
    /\ users \in InitialFiles
    /\ seq = Len(users)
    /\ InitCallers
    /\ InitHasherIdle
    /\ ipc = [i \in Callers |-> "new"]
    /\ icount = [i \in Callers |-> 0]
    /\ ierr = [i \in Callers |-> ""]
    /\ wlock = 0
    /\ pending = <<>>
    /\ InitNoDialog
    /\ InitNoConnection

\* initialization i is not between its first and its last statement
Outside(i) == ipc[i] \in {"new", "done", "failed"}

\* DatabaseManager() number i starts: the tables are created if missing and
\* _ensure_default_user reads SELECT COUNT(*) FROM users (lines 42-103)
InitCount(i) ==
    /\ Outside(i)
    /\ ipc' = [ipc EXCEPT ![i] = "counted"]
    /\ icount' = [icount EXCEPT ![i] = Len(users)]
    /\ ierr' = [ierr EXCEPT ![i] = ""]
    /\ UNCHANGED <<wlock, pending, svars, hvars, dvars, conn>>

\* _ensure_default_user inserting whatever the count was
InitInsert_unguarded(i) ==
    /\ ipc[i] = "counted"
    /\ wlock = 0
    /\ \E salt \in Salts :
          LET r == default_user_insert(users, seq, salt)
          IN  IF r.raised
              THEN /\ ipc' = [ipc EXCEPT ![i] = "failed"]
                   /\ ierr' = [ierr EXCEPT ![i] = "IntegrityError"]
                   /\ UNCHANGED <<wlock, pending>>
              ELSE /\ ipc' = [ipc EXCEPT ![i] = "commit"]
                   /\ wlock' = i
                   /\ pending' = <<r.tbl, r.lastrowid>>
                   /\ UNCHANGED ierr
    /\ UNCHANGED <<icount, svars, hvars, dvars, conn>>

\* _ensure_default_user goes on (lines 104-111): it returns when the count
\* was not zero; otherwise the INSERT takes the write lock once it is free
\* and either adds the row to the connection's transaction or raises
\* sqlite3.IntegrityError, which leaves _ensure_initialized
InitInsert(i) ==
    /\ ipc[i] = "counted"
    /\ IF icount[i] # 0
       THEN /\ ipc' = [ipc EXCEPT ![i] = "commit"]
            /\ UNCHANGED <<ierr, wlock, pending>>
       ELSE /\ wlock = 0
            /\ \E salt \in Salts :
                  LET r == default_user_insert(users, seq, salt)
                  IN  IF r.raised
                      THEN /\ ipc' = [ipc EXCEPT ![i] = "failed"]
                           /\ ierr' = [ierr EXCEPT ![i] = "IntegrityError"]
                           /\ UNCHANGED <<wlock, pending>>
                      ELSE /\ ipc' = [ipc EXCEPT ![i] = "commit"]
                           /\ wlock' = i
                           /\ pending' = <<r.tbl, r.lastrowid>>
                           /\ UNCHANGED ierr
    /\ UNCHANGED <<icount, svars, hvars, dvars, conn>>

\* the INSERT gives up waiting for the write lock another connection holds:
\* sqlite3.OperationalError("database is locked")
InitLocked(i) ==
    /\ ipc[i] = "counted"
    /\ icount[i] = 0
    /\ wlock \notin {0, i}
    /\ ipc' = [ipc EXCEPT ![i] = "failed"]
    /\ ierr' = [ierr EXCEPT ![i] = "OperationalError"]
    /\ UNCHANGED <<icount, wlock, pending, svars, hvars, dvars, conn>>

\* the transaction of initialization i is committed and _ensure_initialized
\* returns (lines 98-99)
InitCommit(i) ==
    /\ ipc[i] = "commit"
    /\ ipc' = [ipc EXCEPT ![i] = "done"]
    /\ IF wlock = i
       THEN /\ users' = connect(users, pending[1], FALSE)
            /\ seq' = pending[2]
            /\ wlock' = 0
            /\ pending' = <<>>
       ELSE UNCHANGED <<users, seq, wlock, pending>>
    /\ UNCHANGED <<icount, ierr, pc, call, result, steps, hvars, dvars, conn>>

\* DatabaseManager() called again and again, each call after the one before
\* it has returned; between two calls the service may register users
NextInitSeq ==
    \/ \E i \in Callers :
          /\ \A j \in Callers \ {i} : Outside(j)
          /\ InitCount(i) \/ InitInsert(i) \/ InitCommit(i)
    \/ /\ \A j \in Callers : Outside(j)
       /\ \E j \in Callers : ipc[j] = "done"
       /\ \/ \E username \in {NameBobCased, NameYuraCased} :
                RegisterCheck(1, username, PwSix, <<>>)
          \/ RegisterInsert(1)

SpecInitSeq == InitFile /\ [][NextInitSeq]_vars

\* several DatabaseManager() calls on one file at the same time
NextInitConc ==
    \E i \in Callers : InitCount(i) \/ InitInsert(i) \/ InitLocked(i) \/ InitCommit(i)

SpecInitConc == InitFile /\ [][NextInitConc]_vars

\* ------------------------------------------------------------------------
\* app/auth_dialog.py and run() of app/main_window.py
\* ------------------------------------------------------------------------
\* run() up to dialog.exec(): the store is initialized, the dialog is shown
\* with authenticated_user = None
InitDialog ==
    /\ InitStore
    /\ InitCallers
    /\ InitHasherIdle
    /\ InitConstructed
    /\ d_state = "open"
    /\ d_user = <<>>
    /\ d_error = ""
    /\ d_last = NoForm
    /\ window = FALSE
    /\ InitNoConnection

\* what is typed into the login tab and into the registration tab
DialogLogins == {NameAdminCased, NameBobCased}

DialogRegistrations == {NameBobCased, NameYuraCased}

DialogPasswords == {PwFive, PwSix}

\* _handle_login accepting the dialog whatever authenticate returned
HandleLogin_accept_any(username, password) ==
    /\ d_state = "open"
    /\ LET r == authenticate(users, Strip(username), password)
       IN  /\ call' = [call EXCEPT ![1] = Args("authenticate", Strip(username), password, <<>>)]
           /\ result' = [result EXCEPT ![1] = r]
           /\ steps' = [steps EXCEPT ![1] = authenticate_steps(users, Strip(username), password)]
           /\ d_last' = Form("login", username, password, <<>>, <<>>, TRUE)
           /\ IF r.kind = "raise"
              THEN /\ d_state' = "crashed"
                   /\ d_error' = ""
                   /\ UNCHANGED d_user
              ELSE IF r.rows # <<>>
              THEN /\ d_user' = r.rows
                   /\ d_state' = "accepted"
                   /\ d_error' = ""
              ELSE /\ d_error' = "invalid login"
                   /\ d_state' = "accepted"
                   /\ UNCHANGED d_user
    /\ UNCHANGED <<users, seq, pc, window, hvars, ivars, conn>>

\* _handle_login with the fields of the login tab
HandleLogin(username, password) ==
    /\ d_state = "open"
    /\ LET r == authenticate(users, Strip(username), password)
       IN  /\ call' = [call EXCEPT ![1] = Args("authenticate", Strip(username), password, <<>>)]
           /\ result' = [result EXCEPT ![1] = r]
           /\ steps' = [steps EXCEPT ![1] = authenticate_steps(users, Strip(username), password)]
           /\ d_last' = Form("login", username, password, <<>>, <<>>, TRUE)
           /\ IF r.kind = "raise"
              THEN /\ d_state' = "crashed"
                   /\ d_error' = ""
                   /\ UNCHANGED d_user
              ELSE IF r.rows # <<>>
              THEN /\ d_user' = r.rows
                   /\ d_state' = "accepted"
                   /\ d_error' = ""
              ELSE /\ d_error' = "invalid login"
                   /\ UNCHANGED <<d_user, d_state>>
    /\ UNCHANGED <<users, seq, pc, window, hvars, ivars, conn>>

\* _handle_register logging the new user in
HandleRegister_autologin(username, password, confirm, full_name) ==
    /\ d_state = "open"
    /\ Len(users) < MaxUsers
    /\ IF password # confirm
       THEN /\ d_error' = "passwords differ"
            /\ d_last' = Form("register", username, password, confirm, full_name, FALSE)
            /\ UNCHANGED <<users, seq, call, result, steps, d_state>>
       ELSE \E salt \in Salts :
              LET chk == register_check(users, Strip(username), password)
                  ins == register_insert(users, seq, Strip(username), password,
                                         Strip(full_name), salt)
              IN  /\ d_last' = Form("register", username, password, confirm, full_name, TRUE)
                  /\ call' = [call EXCEPT ![1] =
                                 Args("register_user", Strip(username), password, Strip(full_name))]
                  /\ steps' = [steps EXCEPT ![1] = <<>>]
                  /\ IF chk.kind = "raise"
                     THEN /\ result' = [result EXCEPT ![1] = chk]
                          /\ d_error' = chk.msg
                          /\ UNCHANGED <<users, seq, d_state>>
                     ELSE IF ins.raised
                     THEN /\ result' = [result EXCEPT ![1] = Raised(ins.exc, "")]
                          /\ d_error' = ""
                          /\ d_state' = IF ins.exc = "ValueError" THEN d_state ELSE "crashed"
                          /\ users' = connect(users, ins.tbl, TRUE)
                          /\ UNCHANGED seq
                     ELSE /\ result' = [result EXCEPT ![1] = Returned(<<>>, FALSE, ins.lastrowid)]
                          /\ d_error' = ""
                          /\ users' = connect(users, ins.tbl, FALSE)
                          /\ seq' = ins.lastrowid
                          /\ d_state' = "accepted"
    /\ d_user' = IF d_state' = "accepted" THEN <<users'[Len(users')]>> ELSE d_user
    /\ UNCHANGED <<pc, window, hvars, ivars, conn>>

\* _handle_register with the fields of the registration tab
HandleRegister(username, password, confirm, full_name) ==
    /\ d_state = "open"
    /\ Len(users) < MaxUsers
    /\ IF password # confirm
       THEN /\ d_error' = "passwords differ"
            /\ d_last' = Form("register", username, password, confirm, full_name, FALSE)
            /\ UNCHANGED <<users, seq, call, result, steps, d_state>>
       ELSE \E salt \in Salts :
              LET chk == register_check(users, Strip(username), password)
                  ins == register_insert(users, seq, Strip(username), password,
                                         Strip(full_name), salt)
              IN  /\ d_last' = Form("register", username, password, confirm, full_name, TRUE)
                  /\ call' = [call EXCEPT ![1] =
                                 Args("register_user", Strip(username), password, Strip(full_name))]
                  /\ steps' = [steps EXCEPT ![1] = <<>>]
                  /\ IF chk.kind = "raise"
                     THEN /\ result' = [result EXCEPT ![1] = chk]
                          /\ d_error' = chk.msg
                          /\ UNCHANGED <<users, seq, d_state>>
                     ELSE IF ins.raised
                     THEN /\ result' = [result EXCEPT ![1] = Raised(ins.exc, "")]
                          /\ d_error' = ""
                          /\ d_state' = IF ins.exc = "ValueError" THEN d_state ELSE "crashed"
                          /\ users' = connect(users, ins.tbl, TRUE)
                          /\ UNCHANGED seq
                     ELSE /\ result' = [result EXCEPT ![1] = Returned(<<>>, FALSE, ins.lastrowid)]
                          /\ d_error' = ""
                          /\ users' = connect(users, ins.tbl, FALSE)
                          /\ seq' = ins.lastrowid
                          /\ UNCHANGED d_state
    /\ UNCHANGED <<pc, d_user, window, hvars, ivars, conn>>

\* the dialog is closed without a login: QDialog.reject()
HandleClose ==
    /\ d_state = "open"
    /\ d_state' = "rejected"
    /\ d_last' = Form("close", <<>>, <<>>, <<>>, <<>>, FALSE)
    /\ UNCHANGED <<d_user, d_error, window, svars, hvars, ivars, conn>>

\* run() after dialog.exec() returned: sys.exit(0) unless the dialog was
\* accepted and authenticated_user is set, else MainWindow is created
RunMain ==
    /\ d_state \in {"accepted", "rejected"}
    /\ ~window
    /\ IF d_state = "accepted" /\ d_user # <<>>
       THEN window' = TRUE /\ UNCHANGED d_state
       ELSE d_state' = "exited" /\ UNCHANGED window
    /\ UNCHANGED <<d_user, d_error, d_last, svars, hvars, ivars, conn>>

NextDialog ==
    \/ \E username \in DialogLogins, password \in LoginPasswords :
          HandleLogin(username, password)
    \/ \E username \in DialogRegistrations, password \in DialogPasswords,
          confirm \in DialogPasswords :
          HandleRegister(username, password, confirm, <<" ", "B", " ">>)
    \/ HandleClose
    \/ RunMain

SpecDialog == InitDialog /\ [][NextDialog]_vars

\* ------------------------------------------------------------------------
\* app/database.py: one with-block of DatabaseManager.connect(), step by step
\* ------------------------------------------------------------------------
\* the usernames the statements of a body insert
BlockUsernames == {AdminName, NameBob, NameYura}

BlockRecords == {RecEarlier, RecLegacy}

\* lines 30-34: sqlite3.connect(), row_factory, PRAGMA, yield connection.
\* The connection sees the committed table; the body starts.
ConnectEnter ==
    /\ conn.state # "open"
    /\ conn' = [state |-> "open", tbl |-> users, lastid |-> seq, body |-> "running"]
    /\ UNCHANGED <<svars, hvars, ivars, dvars>>

\* a statement of the body: an INSERT on the yielded connection. The row is
\* pending in the connection's transaction; sqlite3.IntegrityError ends the
\* body with an exception.
BodyInsert(username, password_hash) ==
    /\ conn.state = "open"
    /\ conn.body = "running"
    /\ Len(conn.tbl) < MaxUsers
    /\ LET r == InsertUser(conn.tbl, conn.lastid, username, password_hash, <<>>)
       IN  conn' = IF r.raised
                   THEN [conn EXCEPT !.body = "raised"]
                   ELSE [conn EXCEPT !.tbl = r.tbl, !.lastid = r.lastrowid]
    /\ UNCHANGED <<svars, hvars, ivars, dvars>>

\* a statement of the body that raises without touching the connection
BodyRaise ==
    /\ conn.state = "open"
    /\ conn.body = "running"
    /\ conn' = [conn EXCEPT !.body = "raised"]
    /\ UNCHANGED <<svars, hvars, ivars, dvars>>

\* lines 35-37: the body is over. When it ended normally the generator goes
\* on after the yield and calls commit(); when it raised the exception is
\* thrown at the yield and commit() is skipped. close() runs in the finally
\* clause on both paths and drops what was not committed.
ConnectExit ==
    /\ conn.state = "open"
    /\ LET raised == conn.body = "raised"
       IN  /\ users' = connect(users, conn.tbl, raised)
           /\ seq' = connect(seq, conn.lastid, raised)
           /\ conn' = [conn EXCEPT !.state = "closed",
                                   !.body = IF raised THEN "raised" ELSE "finished"]
    /\ UNCHANGED <<pc, call, result, steps, hvars, ivars, dvars>>

NextConnect ==
    \/ ConnectEnter
    \/ \E username \in BlockUsernames, password_hash \in BlockRecords :
          BodyInsert(username, password_hash)
    \/ BodyRaise
    \/ ConnectExit

SpecConnect == Init /\ [][NextConnect]_vars

\* ------------------------------------------------------------------------
\* Properties
\* ------------------------------------------------------------------------
\* the key under which a username is compared case-insensitively
Normalize(username) == PyLower(Strip(username))

\* caller c made a call of op that has ended
Finished(c, op) == pc[c] = "idle" /\ call[c].op = op /\ result[c].kind # "none"

\* C1: in every reachable state, whatever the interleaving of register_user
\* calls, no two rows of users have usernames that are equal when compared
\* case-insensitively.
C1_UniqueCaseInsensitive ==
    \A i, j \in 1..Len(users) :
        i # j => PyLower(users[i].username) # PyLower(users[j].username)

\* C2: two register_user calls for the same name (identical, or differing in
\* letter case or surrounding whitespace) that both got past the existence
\* check end with exactly one returning an id and the other failing with the
\* storage conflict (sqlite3.IntegrityError).
C2_OneWinnerOneConflict ==
    \A c, d \in Callers :
        (/\ c # d
         /\ Finished(c, "register_user") /\ Finished(d, "register_user")
         /\ Normalize(call[c].username) = Normalize(call[d].username)
         /\ result[c].exc # "ValueError" /\ result[d].exc # "ValueError")
        => \/ result[c].kind = "return" /\ result[d].exc = "IntegrityError"
           \/ result[d].kind = "return" /\ result[c].exc = "IntegrityError"

\* C3: authenticate(u', p) returns the account with stored username u whose
\* record verifies p whenever u' equals u after trimming and ignoring letter
\* case, and the returned row carries the username as stored.
C3_AuthenticateCaseInsensitive ==
    Finished(1, "authenticate") =>
        \A i \in 1..Len(users) :
            (/\ Normalize(call[1].username) = PyLower(users[i].username)
             /\ call[1].password # <<>>
             /\ verify_password(call[1].password, users[i].password_hash) = "True")
            => /\ result[1].kind = "return"
               /\ result[1].rows = <<users[i]>>
               /\ result[1].rows[1].username = users[i].username

\* C4: verify_password never raises, whatever the record: every call returns
\* True or False.
C4_VerifyNeverRaises ==
    h_op = "verify_password" => h_out \in {"True", "False"}

\* C5: for every non-empty password p and every salt hash_password draws,
\* verify_password(p, hash_password(p)) returns True.
C5_VerifyAcceptsOwnHash ==
    (/\ h_op = "verify_password"
     /\ h_hashed # <<>>
     /\ h_password = h_hashed[1])
    => h_out = "True"

C5_Witness ==
    /\ h_op = "verify_password"
    /\ h_hashed # <<>>
    /\ h_password = h_hashed[1]
    /\ h_password = PwSix
    /\ h_out = "True"

C7_AuthenticateIffMatchAndVerify ==
    Finished(1, "authenticate") =>
        LET matching == {i \in 1..Len(users) :
                            /\ Normalize(call[1].username) # <<>>
                            /\ Normalize(call[1].username) = PyLower(users[i].username)
                            /\ verify_password(call[1].password, users[i].password_hash) = "True"}
        IN  /\ result[1].kind = "return"
            /\ result[1].rows # <<>> <=> matching # {}
            /\ result[1].rows # <<>> => \E i \in matching : result[1].rows = <<users[i]>>

\* C8: register_user reports the first check that fails, in this order:
\* trimmed username shorter than 3, password shorter than 6, a stored
\* username that matches case-insensitively; a trimmed username of length 3
\* and a password of length 6 pass the length checks.
C8_ValidationOrder ==
    call[1].op = "register_user" =>
        LET username == Strip(call[1].username)
            taken == \E i \in 1..Len(users) : PyLower(users[i].username) = PyLower(username)
        IN  /\ Len(username) < 3
                => result[1] = Raised("ValueError", "username too short")
            /\ (Len(username) >= 3 /\ Len(call[1].password) < 6)
                => result[1] = Raised("ValueError", "password too short")
            /\ (Len(username) >= 3 /\ Len(call[1].password) >= 6 /\ pc[1] = "idle"
                /\ result[1].kind = "raise")
                => result[1] = Raised("ValueError", "username taken")
            /\ (Len(username) >= 3 /\ Len(call[1].password) >= 6 /\ pc[1] = "insert")
                => ~taken
            /\ (Len(username) >= 3 /\ Len(call[1].password) >= 6)
                => result[1].msg \notin {"username too short", "password too short"}

\* C9: with one caller, register_user(u, p) with u and p of valid length
\* fails with "username taken" whenever a stored username equals trimmed u
\* case-insensitively, and leaves the store unchanged.
C9_TakenCaseInsensitive ==
    [][\A username \in Usernames, password \in RegisterPasswords, full_name \in FullNames :
          (/\ RegisterCheck(1, username, password, full_name)
           /\ Len(Strip(username)) >= 3
           /\ Len(password) >= 6
           /\ \E i \in 1..Len(users) : PyLower(users[i].username) = Normalize(username))
          => /\ result'[1] = Raised("ValueError", "username taken")
             /\ pc'[1] = "idle"
             /\ users' = users]_vars

\* C10: a register_user call either commits exactly one new account, which
\* then authenticates with the submitted password, or fails and leaves the
\* rows of users as they were.
C10_CommitOrNothing ==
    [][(call[1].op = "register_user" /\ pc[1] = "insert" /\ pc'[1] = "idle")
          => \/ /\ result'[1].kind = "raise"
                /\ users' = users
             \/ /\ result'[1].kind = "return"
                /\ Len(users') = Len(users) + 1
                /\ SubSeq(users', 1, Len(users)) = users
                /\ users'[Len(users')].id = result'[1].id
                /\ authenticate(users', call[1].username, call[1].password).rows
                      = <<users'[Len(users')]>>]_vars

\* C11: a register_user call that got past the existence check and whose
\* insert then meets the UNIQUE constraint fails with ValueError, the
\* exception _handle_register catches and shows as a message.
C11_ConflictIsValueError ==
    \A c \in Callers :
        (/\ Finished(c, "register_user")
         /\ result[c].kind = "raise"
         /\ result[c].msg = "")
        => result[c].exc = "ValueError"

\* C12: a register_user call that returns adds exactly one row to users: its
\* username is the submitted one trimmed and in its original letter case, its
\* password_hash is hash_password of the submitted password, its full_name
\* is the submitted one trimmed, or NULL when that is empty; the call returns
\* the id of the new row, which no row had before.
C12_RegisterPersistsOneAccount ==
    [][\A c \in Callers :
          (/\ call[c].op = "register_user"
           /\ pc[c] = "insert" /\ pc'[c] = "idle"
           /\ result'[c].kind = "return")
          => /\ Len(users') = Len(users) + 1
             /\ SubSeq(users', 1, Len(users)) = users
             /\ LET new == users'[Len(users')]
                    full_name == Strip(call[c].full_name)
                IN  /\ new.username = Strip(call[c].username)
                    /\ \E salt \in Salts :
                          new.password_hash = hash_password(call[c].password, salt).val
                    /\ new.full_name = IF full_name = <<>> THEN <<>> ELSE <<full_name>>
                    /\ new.id = result'[c].id
                    /\ \A i \in 1..Len(users) : users[i].id # new.id]_vars

C12_Witness ==
    /\ Finished(1, "register_user")
    /\ call[1].username = NameBobCased
    /\ call[1].full_name = <<" ", "B", " ">>
    /\ result[1].kind = "return"
    /\ Len(users) = 2
    /\ users[2].username = <<"B", "o", "b">>
    /\ users[2].full_name = <<(<<"B">>)>>
    /\ users[2].id = result[1].id

\* C13: authenticate returns None, and does not raise, whenever the username
\* is empty once trimmed or the password is empty, whatever rows users
\* holds.
C13_EmptyInputNoMatch ==
    (/\ Finished(1, "authenticate")
     /\ (Strip(call[1].username) = <<>> \/ call[1].password = <<>>))
    => result[1] = Returned(<<>>, FALSE, 0)

C13_Witness ==
    /\ Finished(1, "authenticate")
    /\ call[1].username = NameBobCased
    /\ call[1].password = PwEmpty
    /\ users[2].password_hash = RecZeroIter
    /\ result[1] = Returned(<<>>, FALSE, 0)

\* C14: authenticate never raises on account of what users holds: with a
\* password_hash that is malformed or not recognized it returns None, as it
\* does for a wrong password.
C14_AuthenticateNeverRaises ==
    Finished(1, "authenticate") =>
        /\ result[1].kind = "return"
        /\ \A i \in 1..Len(users) :
              users[i].password_hash \in MalformedRecords => result[1].rows # <<users[i]>>

\* C15: authenticate and user_exists only read: whatever a call returns or
\* raises, users holds the same rows with the same fields after it, and no
\* id was assigned.
C15_ReadsLeaveStore ==
    [][\A c \in Callers :
          (/\ pc[c] = "idle" /\ pc'[c] = "idle"
           /\ call'[c].op \in {"authenticate", "user_exists"})
          => users' = users /\ seq' = seq]_vars

C15_Witness ==
    /\ Finished(1, "authenticate")
    /\ call[1].username = NameBobCased
    /\ call[1].password = PwSix
    /\ result[1].rows = <<users[2]>>
    /\ users = StoredTable(RecLegacy)

\* C16: over any sequence of calls the accounts only grow: every row of
\* users is still there after each step, with the same id, username and
\* password_hash.
C16_AccountsOnlyGrow ==
    [][\A i \in 1..Len(users) :
          \E j \in 1..Len(users') :
              /\ users'[j].id = users[i].id
              /\ users'[j].username = users[i].username
              /\ users'[j].password_hash = users[i].password_hash]_vars

C16_Witness ==
    /\ Len(users) = 2
    /\ users[1].username = AdminName
    /\ users[2].username = NameYuraCased
    /\ Finished(1, "register_user")
    /\ call[1].username = NameYuraCased
    /\ result[1].exc = "IntegrityError"

\* a credential record as hash_password formats it: three fields between
\* "$": a positive decimal count without sign or padding, the hexadecimal
\* text of 16 bytes, the hexadecimal text of a derived key
WellFormedRecord(record) ==
    LET parts == Split(record, "$")
    IN  /\ record # <<>>
        /\ Len(parts) = 3
        /\ parts[1] # <<>>
        /\ \A k \in 1..Len(parts[1]) : IsDigit(parts[1][k])
        /\ ~IntParse(parts[1]).big
        /\ IntParse(parts[1]).val >= 1
        /\ IntStr(IntParse(parts[1]).val) = parts[1]
        /\ FromHex(parts[2]).ok
        /\ Len(FromHex(parts[2]).val) = 16
        /\ BytesHex(FromHex(parts[2]).val) = parts[2]
        /\ FromHex(parts[3]).ok
        /\ Len(FromHex(parts[3]).val) = DIGEST_SIZE
        /\ BytesHex(FromHex(parts[3]).val) = parts[3]

\* C17: every string hash_password returns has exactly three "$"-separated
\* fields: a positive decimal iteration count, the hex text of a 16-byte
\* salt and the hex text of the derived key; every password_hash stored by
\* register_user or by the seeding of admin is such a string, never empty.
C17_RecordsWellFormed ==
    /\ (h_op = "hash_password" /\ h_out = "str") => WellFormedRecord(h_record)
    /\ \A i \in 1..Len(users) : WellFormedRecord(users[i].password_hash)

C17_Witness ==
    /\ h_op = "hash_password"
    /\ h_out = "str"
    /\ h_password = PwCyrillic
    /\ Len(Split(h_record, "$")) = 3
    /\ Len(users) = 2
    /\ users[2].username = <<"B", "o", "b">>
    /\ WellFormedRecord(users[2].password_hash)

\* C18: verify_password derives the key with the iteration count the record
\* carries, not with PBKDF2_ITERATIONS: a record written in the format of
\* hash_password under another count verifies True for its password.
C18_VerifyUsesRecordCount ==
    (/\ h_op = "verify_password"
     /\ \E salt \in Salts :
           h_record = RecordWithCount(h_password, salt, EarlierIterations))
    => /\ EarlierIterations # PBKDF2_ITERATIONS
       /\ WellFormedRecord(h_record)
       /\ h_out = "True"

C18_Witness ==
    /\ h_op = "verify_password"
    /\ h_record = RecEarlier
    /\ h_password = PwSix
    /\ h_out = "True"

\* the last two hash_password calls that returned were given the same
\* password
TwoHashesOfOnePassword == h_prev # <<>> /\ h_hashed # <<>> /\ h_prev[1] = h_hashed[1]

\* C19 as stated: two hash_password calls with the same password return
\* different strings, and verify_password accepts the password for both.
C19_TwoHashesDiffer ==
    TwoHashesOfOnePassword
    => /\ h_record # h_prev[3]
       /\ verify_password(h_hashed[1], h_record) = "True"
       /\ verify_password(h_prev[1], h_prev[3]) = "True"

\* C19: two hash_password calls with the same password return different
\* strings exactly when os.urandom gave them different salts, and
\* verify_password accepts the password for both strings.
C19_TwoHashesDifferBySalt ==
    TwoHashesOfOnePassword
    => /\ h_record # h_prev[3] <=> h_hashed[2] # h_prev[2]
       /\ verify_password(h_hashed[1], h_record) = "True"
       /\ verify_password(h_prev[1], h_prev[3]) = "True"

C19_Witness ==
    /\ TwoHashesOfOnePassword
    /\ h_op = "hash_password"
    /\ h_hashed = <<PwSix, Urandom(2)>>
    /\ h_prev[2] = Urandom(1)
    /\ h_record # h_prev[3]

\* C20: hash_password raises ValueError for the empty password and returns
\* no record for it; register_user turns a password shorter than 6 down
\* before it hashes, so the only ValueError leaving register_user is one of
\* its own checks.
C20_EmptyPasswordRejected ==
    /\ (h_op = "hash_password" /\ h_password = <<>>) => h_out = "ValueError"
    /\ (h_op = "hash_password" /\ h_password # <<>>) => h_out = "str"
    /\ h_hashed # <<>> => h_hashed[1] # <<>>
    /\ \A c \in Callers :
          /\ pc[c] = "insert" => Len(call[c].password) >= 6
          /\ (Finished(c, "register_user") /\ result[c].exc = "ValueError")
             => result[c].msg \in {"username too short", "password too short", "username taken"}
          /\ (Finished(c, "register_user") /\ Len(call[c].password) < 6)
             => result[c].msg \in {"username too short", "password too short"}

C20_Witness ==
    /\ h_op = "hash_password"
    /\ h_password = PwEmpty
    /\ h_out = "ValueError"
    /\ h_record = <<>>
    /\ Finished(1, "register_user")
    /\ call[1].username = NameBobCased
    /\ call[1].password = PwEmpty
    /\ result[1] = Raised("ValueError", "password too short")

\* C21: user_exists normalizes the username as authenticate does (trim, then
\* lower-case); it returns False when the normalized username is empty, and
\* otherwise returns True exactly when some stored username matches
\* case-insensitively.
C21_UserExistsCaseInsensitive ==
    Finished(1, "user_exists") =>
        /\ result[1].kind = "return"
        /\ result[1].flag <=>
              /\ Normalize(call[1].username) # <<>>
              /\ \E i \in 1..Len(users) :
                    PyLower(users[i].username) = Normalize(call[1].username)

\* C22: the record authenticate hands to its caller does not carry the
\* stored credential record: it has no password_hash column.
C22_RecordNotExposed ==
    \A c \in Callers :
        (Finished(c, "authenticate") /\ result[c].rows # <<>>)
        => "password_hash" \notin DOMAIN result[c].rows[1]

\* C23: verify_password compares the derived key with the expected key in
\* constant time: the comparison visits every byte of the expected key,
\* wherever the first byte that differs is, and the answer is True only
\* when no byte differs.
C23_ConstantTimeCompare ==
    (h_op = "verify_password" /\ h_out \in {"True", "False"} /\ split_hash(h_record).ok)
    => LET p == split_hash(h_record)
           candidate == pbkdf2_hmac(Utf8(h_password), p.salt, p.iterations)
       IN  /\ h_work = Len(p.hash_bytes)
           /\ h_out = "True" <=> candidate = p.hash_bytes

C23_Witness ==
    /\ h_op = "verify_password"
    /\ h_record = RecLastByteOff
    /\ h_password = PwSix
    /\ h_out = "False"
    /\ h_work = DIGEST_SIZE

\* C24: for a non-empty username and password, an authenticate call that
\* finds no match has done the same steps whether or not the user exists:
\* the lookup, then the key derivation.
C24_SameStepsWhenNoMatch ==
    (/\ Finished(1, "authenticate")
     /\ Normalize(call[1].username) # <<>>
     /\ call[1].password # <<>>
     /\ result[1] = Returned(<<>>, FALSE, 0))
    => steps[1] = <<"lookup", "parse", "derive", "compare">>

\* C25: with DatabaseManager() called any number of times one after the
\* other, a step of an initialization changes users only by adding admin to
\* an empty table; when users holds a row it writes nothing, and no
\* initialization ends with an exception.
C25_SeedOnlyWhenEmpty ==
    [][(ipc' # ipc)
          => /\ users # <<>> => (users' = users /\ pending' = pending)
             /\ users' # users
                   => /\ users = <<>>
                      /\ Len(users') = 1
                      /\ users'[1].username = AdminName
             /\ \A i \in Callers : ierr'[i] = "" /\ ipc'[i] # "failed"]_vars

C25_Witness ==
    /\ ipc = [i \in Callers |-> "done"]
    /\ icount[1] = 0
    /\ \A i \in Callers \ {1} : icount[i] > 0
    /\ Len(users) = 3
    /\ Cardinality({k \in 1..Len(users) : users[k].username = AdminName}) = 1

\* C26: with one caller, a register_user call that got past the existence
\* check (user_exists returned False for a username of valid length) always
\* inserts: it returns an id and never meets the UNIQUE constraint.
C26_CheckAgreesWithConstraint ==
    [][(call[1].op = "register_user" /\ pc[1] = "insert" /\ pc'[1] = "idle")
          => /\ ~user_exists(users, Strip(call[1].username))
             /\ ~UniqueViolation(users, Strip(call[1].username))
             /\ result'[1].kind = "return"]_vars

\* C27: the dialog is accepted only with authenticated_user holding the row
\* a successful authenticate call returned; MainWindow is created only
\* after the dialog was accepted with authenticated_user set; a login that
\* finds no match leaves authenticated_user unset and the dialog open.
C27_AcceptedOnlyAfterLogin ==
    /\ d_state = "accepted"
          => /\ d_last.handler = "login"
             /\ call[1].op = "authenticate"
             /\ result[1].kind = "return"
             /\ d_user # <<>>
             /\ d_user = result[1].rows
             /\ d_user = authenticate(users, d_last.username, d_last.password).rows
    /\ window => (d_state = "accepted" /\ d_user # <<>>)
    /\ d_user # <<>> => d_state = "accepted"
    /\ (d_last.handler = "login" /\ result[1] = Returned(<<>>, FALSE, 0))
          => (d_user = <<>> /\ d_state = "open" /\ ~window)

C27_Witness ==
    /\ window
    /\ d_state = "accepted"
    /\ d_last.handler = "login"
    /\ d_last.username = NameBobCased
    /\ d_user # <<>>
    /\ d_user[1].username = <<"B", "o", "b">>

\* C28: in the registration form, when password and confirmation differ
\* register_user is not called and users is unchanged; and no registration,
\* successful or not, logs the user in: authenticated_user stays unset and
\* the dialog is not accepted by it.
C28_RegisterDoesNotLogIn ==
    [][(d_last'.handler = "register" /\ d_state = "open")
          => /\ d_last'.password # d_last'.confirm
                   => /\ ~d_last'.called
                      /\ users' = users /\ seq' = seq
                      /\ call' = call /\ result' = result
             /\ (d_last'.called /\ result'[1].kind = "return")
                   => /\ Len(users') = Len(users) + 1
                      /\ d_state' = "open"
             /\ d_user = <<>> /\ d_user' = <<>>
             /\ d_state' # "accepted"
             /\ ~window']_vars

C28_Witness ==
    /\ d_last.handler = "register"
    /\ d_last.password = PwSix
    /\ d_last.confirm = PwFive
    /\ ~d_last.called
    /\ d_error = "passwords differ"
    /\ Len(users) = 2
    /\ call[1].op = "register_user"
    /\ result[1].kind = "return"
    /\ d_user = <<>>
    /\ d_state = "open"

\* C29: when several DatabaseManager() calls run at the same time on one
\* empty store, whatever the order of their counts and inserts, none ends
\* with an exception, and once all are done users holds exactly one admin.
C29_ConcurrentInitCompletes ==
    /\ \A i \in Callers : ierr[i] = "" /\ ipc[i] # "failed"
    /\ (\A i \in Callers : ipc[i] = "done")
          => Cardinality({k \in 1..Len(users) : users[k].username = AdminName})
                = (IF \E k \in 1..Len(users) : users[k].username = NameBob THEN 0 ELSE 1)

\* C30: connect() commits the pending writes of the with-block exactly when
\* the body ends without raising; when the body raises, nothing is committed;
\* on both paths the connection is closed when the block is left, and
\* nothing is committed while the body is still running.
C30_CommitIffBodyEndsNormally ==
    [][/\ (conn.state = "open" /\ conn'.state = "open") => (users' = users /\ seq' = seq)
       /\ (conn.state = "open" /\ conn'.state # "open") =>
              /\ conn'.state = "closed"
              /\ (conn.body # "raised" => users' = conn.tbl /\ seq' = conn.lastid)
              /\ (conn.body = "raised" => users' = users /\ seq' = seq)]_vars

\* a block was left by an exception after its body had inserted a row: the
\* connection is closed and the row is not in users
C30_Witness ==
    /\ conn.state = "closed"
    /\ conn.body = "raised"
    /\ Len(conn.tbl) > Len(users)
====
